---- MODULE Spec2Model ----
(***************************************************************************)
(* Secret-handshake driver of shs_async (src/src/lib.rs): the client and   *)
(* server coroutines run against each other over a duplex of two ring      *)
(* buffers, as in the crate's tests.  Cryptography is symbolic: keys are   *)
(* named identities, a Diffie-Hellman result is the unordered pair of the  *)
(* two identities, a MAC / box tag / signature is the record of its inputs.*)
(***************************************************************************)
EXTENDS Integers, Sequences, FiniteSets, TLC

VARIABLES cfg, c, s, chan, wire

vars == <<cfg, c, s, chan, wire>>

(* ------------------------------ bounds -------------------------------- *)

NumNetIds == 2

NetIds == 1..NumNetIds

(* ------------------------- program constants --------------------------- *)

ClientHelloBuf == 64

ServerHelloBuf == 64

ClientAuthBuf == 112

ServerAcceptBuf == 80

RingCap == 1024

MacLen == 32

TagLen == 16

(* --------------------------- key material ------------------------------ *)

PK(id) == <<"pk", id>>

SK(id) == <<"sk", id>>

NoKey == PK("none")

ZeroPk == PK("zero")

FlippedPk == PK("flipped")

\* generate_longterm_keypair() / generate_eph_keypair(): fresh identities
ClientLongterm == "C"

ServerLongterm == "S"

OtherLongterm == "O"

ClientEph == "c_eph"

ServerEph == "s_eph"

Ok(v) == [ok |-> TRUE, v |-> v]

Fail(e) == [ok |-> FALSE, e |-> e]

(* ------------------------ primitives (symbolic) ------------------------ *)

sha256(m) == <<"sha256", m>>

\* HMAC under the network key; x is the xor of bits flipped in transit
auth(key, m) == [k |-> key, m |-> m, x |-> 0]

\* ed25519 -> curve25519: fails on a malformed / small-order point
pk_to_curve(pk) == IF pk = ZeroPk \/ pk = FlippedPk \/ pk = NoKey THEN Fail("conv") ELSE Ok(pk)

\* scalar multiplication: commutative in the two identities
derive_shared_secret(sk, pk) ==
    IF pk = ZeroPk \/ pk = NoKey THEN Fail("dh") ELSE Ok({sk[2], pk[2]})

sign(sk, m) == [by |-> sk[2], m |-> m]

verify(pk, sig, m) == sig = [by |-> pk[2], m |-> m]

seal(key, payload) ==
    LET body == [v |-> payload, x |-> 0]
    IN  [tag |-> auth(key, body), body |-> body]

open(key, ct) == IF ct.tag = auth(key, ct.body) THEN Ok(ct.body.v) ELSE Fail("open")

(* ------------------------------ messages ------------------------------- *)

Frames == {"ClientHello", "ServerHello", "ClientAuth", "ServerAccept"}

WireLen(f) ==
    CASE f = "ClientHello" -> 64
      [] f = "ServerHello" -> 64
      [] f = "ClientAuth" -> 112
      [] f = "ServerAccept" -> 80

Hello_new(eph_pk, net_key) == [mac |-> auth(net_key, eph_pk), pk |-> eph_pk]

Hello_from_slice(type, buf) ==
    IF buf.len = WireLen(type) THEN Ok(buf.body) ELSE Fail("BadLength")

Hello_verify(hello, net_key) ==
    IF hello.mac = auth(net_key, hello.pk) THEN Ok(hello.pk) ELSE Fail("HelloAuthFailure")

SharedA_client_side(eph_sk, server_eph_pk) == derive_shared_secret(eph_sk, server_eph_pk)

SharedB_client_side(eph_sk, server_pk) ==
    LET cv == pk_to_curve(server_pk)
    IN  IF cv.ok THEN derive_shared_secret(eph_sk, cv.v) ELSE cv

SharedC_client_side(sk, server_eph_pk) == derive_shared_secret(sk, server_eph_pk)

SharedA_server_side(eph_sk, client_eph_pk) == derive_shared_secret(eph_sk, client_eph_pk)

SharedB_server_side(sk, client_eph_pk) == derive_shared_secret(sk, client_eph_pk)

SharedC_server_side(eph_sk, client_pk) ==
    LET cv == pk_to_curve(client_pk)
    IN  IF cv.ok THEN derive_shared_secret(eph_sk, cv.v) ELSE cv

K1(net_key, a, b) == sha256(<<net_key, a, b>>)

K2(net_key, a, b, cc) == sha256(<<net_key, a, b, cc>>)

ClientSig(sk, server_pk, net_key, a) == sign(sk, <<net_key, server_pk, sha256(a)>>)

ClientAuth_new(sk, pk, server_pk, net_key, a, b) ==
    seal(K1(net_key, a, b), [sig |-> ClientSig(sk, server_pk, net_key, a), pk |-> pk])

Sealed_from_buffer(type, buf) ==
    IF buf.len = WireLen(type) THEN Ok(buf.body) ELSE Fail("BadLength")

ClientAuth_open_and_verify(ca, pk, net_key, a, b) ==
    LET o == open(K1(net_key, a, b), ca)
    IN  IF o.ok /\ verify(o.v.pk, o.v.sig, <<net_key, pk, sha256(a)>>)
        THEN Ok(o.v)
        ELSE Fail("ClientAuthFailure")

ServerSig(sk, client_pk, net_key, client_sig, a) ==
    sign(sk, <<net_key, client_sig, client_pk, sha256(a)>>)

ServerAccept_new(sk, client_pk, net_key, client_sig, a, b, cc) ==
    seal(K2(net_key, a, b, cc), [sig |-> ServerSig(sk, client_pk, net_key, client_sig, a)])

ServerAccept_open_and_verify(sa, sk, pk, server_pk, net_key, a, b, cc) ==
    LET o == open(K2(net_key, a, b, cc), sa)
        client_sig == ClientSig(sk, server_pk, net_key, a)
    IN  IF o.ok /\ verify(server_pk, o.v.sig, <<net_key, client_sig, pk, sha256(a)>>)
        THEN Ok(TRUE)
        ELSE Fail("ServerAcceptFailure")

HashS(net_key, a, b, cc) == sha256(sha256(<<net_key, a, b, cc>>))

client_to_server_key(server_pk, net_key, a, b, cc) == sha256(<<HashS(net_key, a, b, cc), server_pk>>)

server_to_client_key(client_pk, net_key, a, b, cc) == sha256(<<HashS(net_key, a, b, cc), client_pk>>)

\* NonceGen::new: the generator's first value is its seed
NonceGen_new(pk, net_key) == auth(net_key, pk)

NoOutcome ==
    [read_key |-> <<>>, read_noncegen |-> <<>>, write_key |-> <<>>, write_noncegen |-> <<>>]

(* --------------------------- configurations ---------------------------- *)

NoFault == [kind |-> "none", frame |-> "ClientHello", at |-> 0]

\* cut: the stream delivers bytes 0..at-1 of the frame and then end-of-stream
\* flip: one bit of byte `at` of the frame is inverted in transit
Faults ==
    {NoFault} \cup
    UNION {{[kind |-> k, frame |-> f, at |-> n] : n \in 0..(WireLen(f) - 1)}
              : k \in {"cut", "flip"}, f \in Frames}

\* the operations on a frame: write_all and flush by its writer, read_exact by
\* its reader
OpIndex(op) == CASE op = "write" -> 0 [] op = "flush" -> 1 [] op = "read" -> 2

\* ioerr: the stream may return an I/O error from operation `at` on the frame
IoFaults == {[kind |-> "ioerr", frame |-> f, at |-> n] : f \in Frames, n \in 0..2}

\* cancel: the caller may drop the future of either role while it is suspended
CancelFault == [kind |-> "cancel", frame |-> "ClientHello", at |-> 0]

\* the faults that are combined with a failing close()
CloseFaults ==
    {NoFault} \cup IoFaults \cup
    {[kind |-> k, frame |-> f, at |-> 0] : k \in {"cut", "flip"}, f \in Frames}

\* the server public key handed to client(): the real one, an unrelated
\* valid one, or 32 zero bytes
ServerPkChoices == {PK(ServerLongterm), PK(OtherLongterm), ZeroPk}

\* close_fails: close() of either side returns an error
\* partial: a poll may transfer fewer bytes than asked for
\* cap: the capacity of each direction's buffer
Configs ==
    [cnet : NetIds, snet : NetIds, server_pk : ServerPkChoices,
     fault : Faults \cup IoFaults \cup {CancelFault}, close_fails : {FALSE},
     partial : {FALSE}, cap : {RingCap}]
    \cup
    [cnet : NetIds, snet : NetIds, server_pk : ServerPkChoices,
     fault : CloseFaults, close_fails : {TRUE}, partial : {FALSE}, cap : {RingCap}]

\* a buffer that holds less than any frame
SmallCap == 48

\* the chunkings of a fault-free stream: whole frames, or any split of them,
\* through the ring buffer of the tests or through a small one
ChunkConfigs ==
    [cnet : {1}, snet : NetIds, server_pk : ServerPkChoices, fault : {NoFault},
     close_fails : {FALSE}, partial : BOOLEAN, cap : {SmallCap, RingCap}]

(* ------------------------------ stream --------------------------------- *)

Dirs == {"c2s", "s2c"}

DirOf(f) == IF f \in {"ClientHello", "ClientAuth"} THEN "c2s" ELSE "s2c"

WriterOf(d) == IF d = "c2s" THEN "client" ELSE "server"

FrameOff(f) == IF f \in {"ClientHello", "ServerHello"} THEN 0 ELSE 64

Min(a, b) == IF a < b THEN a ELSE b

\* sent, rcvd: handshake bytes written and bytes read; extra: bytes written
\* by the caller after its handshake has returned
EmptyChan == [frames |-> <<>>, sent |-> 0, rcvd |-> 0, extra |-> 0, closed |-> FALSE]

CutOn(d) == cfg.fault.kind = "cut" /\ DirOf(cfg.fault.frame) = d

CutPos == FrameOff(cfg.fault.frame) + cfg.fault.at

\* bytes of direction d that the reader can still obtain
Avail(d) ==
    (IF CutOn(d) THEN Min(chan[d].sent, CutPos) ELSE chan[d].sent + chan[d].extra)
        - chan[d].rcvd

\* poll_read returns Ok(0): writer closed and buffer drained, or the cut reached
Eof(d) ==
    /\ Avail(d) = 0
    /\ \/ chan[d].closed
       \/ CutOn(d) /\ chan[d].rcvd = CutPos

IoErr(f, op) ==
    cfg.fault.kind = "ioerr" /\ cfg.fault.frame = f /\ cfg.fault.at = OpIndex(op)

\* whether the peer sees end-of-stream after close(): always when close()
\* succeeds, either way when it returns an error
CloseEffects == IF cfg.close_fails THEN BOOLEAN ELSE {TRUE}

Free(d) == cfg.cap - (chan[d].sent + chan[d].extra - chan[d].rcvd)

\* the ring buffer moves as many bytes as it can in one poll
Chunks(want, can) == IF cfg.partial THEN 1..Min(want, can) ELSE {Min(want, can)}

Tamper(fr, at) ==
    IF fr.type \in {"ClientHello", "ServerHello"}
    THEN IF at < MacLen
         THEN [fr EXCEPT !.body.mac.x = 1 - @]
         ELSE [fr EXCEPT !.body.pk = FlippedPk]
    ELSE IF at < TagLen
         THEN [fr EXCEPT !.body.tag.x = 1 - @]
         ELSE [fr EXCEPT !.body.body.x = 1 - @]

Deliver(fr) ==
    IF cfg.fault.kind = "flip" /\ cfg.fault.frame = fr.type THEN Tamper(fr, cfg.fault.at) ELSE fr

\* bytes that are no frame of the protocol: nothing in them authenticates
Garbage(n) ==
    [type |-> "none", off |-> 0, len |-> n,
     body |-> [mac |-> [k |-> 0, m |-> NoKey, x |-> 1], pk |-> NoKey,
               tag |-> [k |-> <<>>, m |-> <<>>, x |-> 1], body |-> [v |-> <<>>, x |-> 1]]]

\* the n bytes of direction d that start at offset `start`, as delivered
Received(d, start, n) ==
    LET idx == {i \in 1..Len(chan[d].frames) :
                   chan[d].frames[i].off = start /\ chan[d].frames[i].len = n}
    IN  IF idx = {} THEN Garbage(n) ELSE Deliver(chan[d].frames[CHOOSE i \in idx : TRUE])

\* write_all, one poll: the frame enters the stream at its first byte
PollWrite(d, type, body, wdone, k) ==
    /\ chan' = [chan EXCEPT
                  ![d].frames = IF wdone = 0
                                THEN Append(@, [type |-> type, off |-> chan[d].sent,
                                                len |-> WireLen(type), body |-> body])
                                ELSE @,
                  ![d].sent = @ + k]
    /\ wire' = IF wdone = 0
               THEN Append(wire, [type |-> type, by |-> WriterOf(d), len |-> WireLen(type)])
               ELSE wire

PollRead(d, k) == chan' = [chan EXCEPT ![d].rcvd = @ + k]

(* ------------------------------ client --------------------------------- *)

NoSig == [by |-> "none", m |-> <<>>]

ClientInit ==
    [pc |-> "write_hello", wdone |-> 0, rdone |-> 0, err |-> "none", erat |-> "none", outcome |-> NoOutcome,
     server_eph_pk |-> NoKey, shared_a |-> {}, shared_b |-> {}, shared_c |-> {},
     closed |-> FALSE, close_failed |-> FALSE, ret |-> "none"]

\* slip: a stream that has failed is returned from without the close
ClientFail_no_close_on_io(e) ==
    [c EXCEPT !.pc = IF e = "TransportError" THEN "done" ELSE "close",
              !.ret = IF e = "TransportError" THEN e ELSE @,
              !.err = e, !.erat = c.pc, !.wdone = 0, !.rdone = 0]

\* `?` inside attempt_client_side: client() goes on to close the stream
ClientFail(e) == [c EXCEPT !.pc = "close", !.err = e, !.erat = c.pc, !.wdone = 0, !.rdone = 0]

\* slip: the two directions' nonce seeds taken from the wrong ephemeral keys
client_outcome_swapped_nonce(pk, net_key, server_pk, eph_pk, server_eph_pk, a, b, cc) ==
    [read_key |-> server_to_client_key(pk, net_key, a, b, cc),
     read_noncegen |-> NonceGen_new(server_eph_pk, net_key),
     write_key |-> client_to_server_key(server_pk, net_key, a, b, cc),
     write_noncegen |-> NonceGen_new(eph_pk, net_key)]

client_outcome(pk, net_key, server_pk, eph_pk, server_eph_pk, a, b, cc) ==
    [read_key |-> server_to_client_key(pk, net_key, a, b, cc),
     read_noncegen |-> NonceGen_new(eph_pk, net_key),
     write_key |-> client_to_server_key(server_pk, net_key, a, b, cc),
     write_noncegen |-> NonceGen_new(server_eph_pk, net_key)]

\* slip: the ephemeral key taken from the parsed hello without verify()
ClientGotServerHello_unverified(buf) ==
    LET sh == Hello_from_slice("ServerHello", buf)
        v == IF sh.ok THEN Ok(sh.v.pk) ELSE sh
        a == IF v.ok THEN SharedA_client_side(SK(ClientEph), v.v) ELSE v
        b == IF v.ok THEN SharedB_client_side(SK(ClientEph), cfg.server_pk) ELSE v
        cc == IF v.ok THEN SharedC_client_side(SK(ClientLongterm), v.v) ELSE v
    IN  IF ~v.ok THEN ClientFail(v.e)
        ELSE IF ~a.ok \/ ~b.ok \/ ~cc.ok THEN ClientFail("KeyConversionFailure")
        ELSE [c EXCEPT !.pc = "write_auth", !.rdone = 0, !.server_eph_pk = v.v,
                       !.shared_a = a.v, !.shared_b = b.v, !.shared_c = cc.v]

\* lines 53-60: parse and verify ServerHello, derive the three shared secrets
ClientGotServerHello(buf) ==
    LET sh == Hello_from_slice("ServerHello", buf)
        v == IF sh.ok THEN Hello_verify(sh.v, cfg.cnet) ELSE sh
        a == IF v.ok THEN SharedA_client_side(SK(ClientEph), v.v) ELSE v
        b == IF v.ok THEN SharedB_client_side(SK(ClientEph), cfg.server_pk) ELSE v
        cc == IF v.ok THEN SharedC_client_side(SK(ClientLongterm), v.v) ELSE v
    IN  IF ~v.ok THEN ClientFail(v.e)
        ELSE IF ~a.ok \/ ~b.ok \/ ~cc.ok THEN ClientFail("KeyConversionFailure")
        ELSE [c EXCEPT !.pc = "write_auth", !.rdone = 0, !.server_eph_pk = v.v,
                       !.shared_a = a.v, !.shared_b = b.v, !.shared_c = cc.v]

\* slip: the client's and the server's public key passed in each other's place
ClientGotServerAccept_swapped_pk(buf) ==
    LET sa == Sealed_from_buffer("ServerAccept", buf)
        v == IF sa.ok
             THEN ServerAccept_open_and_verify(sa.v, SK(ClientLongterm), cfg.server_pk,
                                               PK(ClientLongterm), cfg.cnet,
                                               c.shared_a, c.shared_b, c.shared_c)
             ELSE sa
    IN  IF ~v.ok THEN ClientFail(v.e)
        ELSE [c EXCEPT !.pc = "done", !.rdone = 0, !.ret = "ok",
                       !.outcome = client_outcome(PK(ClientLongterm), cfg.cnet, cfg.server_pk,
                                                  PK(ClientEph), c.server_eph_pk,
                                                  c.shared_a, c.shared_b, c.shared_c)]

\* slip: client() closes the stream whatever the attempt returned
ClientGotServerAccept_closes(buf) ==
    LET sa == Sealed_from_buffer("ServerAccept", buf)
        v == IF sa.ok
             THEN ServerAccept_open_and_verify(sa.v, SK(ClientLongterm), PK(ClientLongterm),
                                               cfg.server_pk, cfg.cnet,
                                               c.shared_a, c.shared_b, c.shared_c)
             ELSE sa
    IN  IF ~v.ok THEN ClientFail(v.e)
        ELSE [c EXCEPT !.pc = "close", !.rdone = 0,
                       !.outcome = client_outcome(PK(ClientLongterm), cfg.cnet, cfg.server_pk,
                                                  PK(ClientEph), c.server_eph_pk,
                                                  c.shared_a, c.shared_b, c.shared_c)]

\* lines 70-81: parse, open and verify ServerAccept, build the outcome
ClientGotServerAccept(buf) ==
    LET sa == Sealed_from_buffer("ServerAccept", buf)
        v == IF sa.ok
             THEN ServerAccept_open_and_verify(sa.v, SK(ClientLongterm), PK(ClientLongterm),
                                               cfg.server_pk, cfg.cnet,
                                               c.shared_a, c.shared_b, c.shared_c)
             ELSE sa
    IN  IF ~v.ok THEN ClientFail(v.e)
        ELSE [c EXCEPT !.pc = "done", !.rdone = 0, !.ret = "ok",
                       !.outcome = client_outcome(PK(ClientLongterm), cfg.cnet, cfg.server_pk,
                                                  PK(ClientEph), c.server_eph_pk,
                                                  c.shared_a, c.shared_b, c.shared_c)]

\* line 46
ClientWriteHello ==
    /\ c.pc = "write_hello"
    /\ \/ /\ Free("c2s") > 0
          /\ \E k \in Chunks(WireLen("ClientHello") - c.wdone, Free("c2s")) :
                /\ PollWrite("c2s", "ClientHello", Hello_new(PK(ClientEph), cfg.cnet), c.wdone, k)
                /\ c' = IF c.wdone + k = WireLen("ClientHello")
                        THEN [c EXCEPT !.pc = "flush_hello", !.wdone = 0]
                        ELSE [c EXCEPT !.wdone = @ + k]
       \/ /\ IoErr("ClientHello", "write")
          /\ c' = ClientFail("TransportError")
          /\ UNCHANGED <<chan, wire>>
    /\ UNCHANGED <<cfg, s>>

\* line 47
ClientFlushHello ==
    /\ c.pc = "flush_hello"
    /\ \/ c' = [c EXCEPT !.pc = "read_hello"]
       \/ IoErr("ClientHello", "flush") /\ c' = ClientFail("TransportError")
    /\ UNCHANGED <<cfg, s, chan, wire>>

\* slip: a hand-written read loop that polls again when the read returns 0 bytes
ClientReadHello_ignores_eof ==
    /\ c.pc = "read_hello"
    /\ \/ /\ Avail("s2c") > 0
          /\ \E k \in Chunks(ServerHelloBuf - c.rdone, Avail("s2c")) :
                /\ PollRead("s2c", k)
                /\ c' = IF c.rdone + k = ServerHelloBuf
                        THEN ClientGotServerHello(
                                 Received("s2c", chan["s2c"].rcvd - c.rdone, ServerHelloBuf))
                        ELSE [c EXCEPT !.rdone = @ + k]
       \/ /\ IoErr("ServerHello", "read")
          /\ c' = ClientFail("TransportError")
          /\ UNCHANGED chan
    /\ UNCHANGED <<cfg, s, wire>>

\* lines 49-60
ClientReadHello ==
    /\ c.pc = "read_hello"
    /\ \/ /\ Avail("s2c") > 0
          /\ \E k \in Chunks(ServerHelloBuf - c.rdone, Avail("s2c")) :
                /\ PollRead("s2c", k)
                /\ c' = IF c.rdone + k = ServerHelloBuf
                        THEN ClientGotServerHello(
                                 Received("s2c", chan["s2c"].rcvd - c.rdone, ServerHelloBuf))
                        ELSE [c EXCEPT !.rdone = @ + k]
       \/ /\ Eof("s2c")
          /\ c' = ClientFail("TransportError")
          /\ UNCHANGED chan
       \/ /\ IoErr("ServerHello", "read")
          /\ c' = ClientFail("TransportError")
          /\ UNCHANGED chan
    /\ UNCHANGED <<cfg, s, wire>>

\* slip: write() in place of write_all(): a short count is not followed up
ClientWriteAuth_single_write ==
    /\ c.pc = "write_auth"
    /\ \/ /\ Free("c2s") > 0
          /\ \E k \in Chunks(WireLen("ClientAuth") - c.wdone, Free("c2s")) :
                /\ PollWrite("c2s", "ClientAuth",
                             ClientAuth_new(SK(ClientLongterm), PK(ClientLongterm), cfg.server_pk,
                                            cfg.cnet, c.shared_a, c.shared_b),
                             c.wdone, k)
                /\ c' = [c EXCEPT !.pc = "flush_auth", !.wdone = 0]
       \/ /\ IoErr("ClientAuth", "write")
          /\ c' = ClientFail("TransportError")
          /\ UNCHANGED <<chan, wire>>
    /\ UNCHANGED <<cfg, s>>

\* lines 63-64
ClientWriteAuth ==
    /\ c.pc = "write_auth"
    /\ \/ /\ Free("c2s") > 0
          /\ \E k \in Chunks(WireLen("ClientAuth") - c.wdone, Free("c2s")) :
                /\ PollWrite("c2s", "ClientAuth",
                             ClientAuth_new(SK(ClientLongterm), PK(ClientLongterm), cfg.server_pk,
                                            cfg.cnet, c.shared_a, c.shared_b),
                             c.wdone, k)
                /\ c' = IF c.wdone + k = WireLen("ClientAuth")
                        THEN [c EXCEPT !.pc = "flush_auth", !.wdone = 0]
                        ELSE [c EXCEPT !.wdone = @ + k]
       \/ /\ IoErr("ClientAuth", "write")
          /\ c' = ClientFail("TransportError")
          /\ UNCHANGED <<chan, wire>>
    /\ UNCHANGED <<cfg, s>>

\* slip: the outcome is built once ClientAuth is flushed, ServerAccept unread
ClientFlushAuth_returns ==
    /\ c.pc = "flush_auth"
    /\ \/ c' = [c EXCEPT !.pc = "done", !.ret = "ok",
                         !.outcome = client_outcome(PK(ClientLongterm), cfg.cnet,
                                                    cfg.server_pk, PK(ClientEph),
                                                    c.server_eph_pk,
                                                    c.shared_a, c.shared_b, c.shared_c)]
       \/ IoErr("ClientAuth", "flush") /\ c' = ClientFail("TransportError")
    /\ UNCHANGED <<cfg, s, chan, wire>>

\* line 65
ClientFlushAuth ==
    /\ c.pc = "flush_auth"
    /\ \/ c' = [c EXCEPT !.pc = "read_accept"]
       \/ IoErr("ClientAuth", "flush") /\ c' = ClientFail("TransportError")
    /\ UNCHANGED <<cfg, s, chan, wire>>

\* slip: one read of whatever has arrived, into a buffer larger than the frame
ClientReadAccept_greedy ==
    /\ c.pc = "read_accept"
    /\ \/ /\ Avail("s2c") > 0
          /\ \E k \in {Avail("s2c")} :
                /\ PollRead("s2c", k)
                /\ c' = IF c.rdone + k >= ServerAcceptBuf
                        THEN ClientGotServerAccept(
                                 Received("s2c", chan["s2c"].rcvd - c.rdone, ServerAcceptBuf))
                        ELSE [c EXCEPT !.rdone = @ + k]
       \/ /\ Eof("s2c")
          /\ c' = ClientFail("TransportError")
          /\ UNCHANGED chan
       \/ /\ IoErr("ServerAccept", "read")
          /\ c' = ClientFail("TransportError")
          /\ UNCHANGED chan
    /\ UNCHANGED <<cfg, s, wire>>

\* lines 67-81
ClientReadAccept ==
    /\ c.pc = "read_accept"
    /\ \/ /\ Avail("s2c") > 0
          /\ \E k \in Chunks(ServerAcceptBuf - c.rdone, Avail("s2c")) :
                /\ PollRead("s2c", k)
                /\ c' = IF c.rdone + k = ServerAcceptBuf
                        THEN ClientGotServerAccept(
                                 Received("s2c", chan["s2c"].rcvd - c.rdone, ServerAcceptBuf))
                        ELSE [c EXCEPT !.rdone = @ + k]
       \/ /\ Eof("s2c")
          /\ c' = ClientFail("TransportError")
          /\ UNCHANGED chan
       \/ /\ IoErr("ServerAccept", "read")
          /\ c' = ClientFail("TransportError")
          /\ UNCHANGED chan
    /\ UNCHANGED <<cfg, s, wire>>

\* slip: client() returns the error without closing the stream
ClientClose_forgotten ==
    /\ c.pc = "close"
    /\ c' = [c EXCEPT !.pc = "done", !.ret = c.err]
    /\ UNCHANGED <<cfg, s, chan, wire>>

\* slip: close()? in place of close().unwrap_or(()): the close error returned
ClientClose_propagates ==
    /\ c.pc = "close"
    /\ \E shut \in CloseEffects : chan' = [chan EXCEPT !["c2s"].closed = shut]
    /\ c' = [c EXCEPT !.pc = "done", !.closed = TRUE, !.close_failed = cfg.close_fails,
                      !.ret = IF cfg.close_fails THEN "TransportError" ELSE c.err]
    /\ UNCHANGED <<cfg, s, wire>>

\* lines 27-30: close after a failed attempt, whatever close() returns
ClientClose ==
    /\ c.pc = "close"
    /\ \E shut \in CloseEffects : chan' = [chan EXCEPT !["c2s"].closed = shut]
    /\ c' = [c EXCEPT !.pc = "done", !.closed = TRUE, !.close_failed = cfg.close_fails,
                      !.ret = c.err]
    /\ UNCHANGED <<cfg, s, wire>>

\* the attempt is suspended at an await: read_exact without data, write_all
\* without room, or flush
Suspended(r, rd, wr) ==
    \/ r.pc \in {"read_hello", "read_auth", "read_accept"} /\ Avail(rd) = 0
    \/ r.pc \in {"write_hello", "write_auth", "write_accept"} /\ Free(wr) = 0
    \/ r.pc \in {"flush_hello", "flush_auth", "flush_accept"}

\* the future of client() is dropped at an await: nothing of lines 26-30 runs
\* any more; a stream passed by value is dropped with it, a stream passed as
\* &mut (lines 194, 236) stays as it is
ClientCancel ==
    /\ cfg.fault.kind = "cancel"
    /\ Suspended(c, "s2c", "c2s")
    /\ c' = [c EXCEPT !.pc = "cancelled"]
    /\ \E dropped \in BOOLEAN : chan' = [chan EXCEPT !["c2s"].closed = dropped]
    /\ UNCHANGED <<cfg, s, wire>>

(* ------------------------------ server --------------------------------- *)

ServerInit ==
    [pc |-> "read_hello", wdone |-> 0, rdone |-> 0, err |-> "none", erat |-> "none", outcome |-> NoOutcome,
     client_eph_pk |-> NoKey, shared_a |-> {}, shared_b |-> {}, shared_c |-> {},
     client_sig |-> NoSig, client_pk |-> NoKey,
     closed |-> FALSE, close_failed |-> FALSE, ret |-> "none"]

\* slip: every failure of the attempt surfaced as the transport error
ServerFail_as_io(e) ==
    [s EXCEPT !.pc = "close", !.err = "TransportError", !.erat = s.pc, !.wdone = 0, !.rdone = 0]

\* `?` inside attempt_server_side: server() goes on to close the stream
ServerFail(e) == [s EXCEPT !.pc = "close", !.err = e, !.erat = s.pc, !.wdone = 0, !.rdone = 0]

server_outcome(pk, net_key, client_pk, eph_pk, client_eph_pk, a, b, cc) ==
    [read_key |-> client_to_server_key(pk, net_key, a, b, cc),
     read_noncegen |-> NonceGen_new(eph_pk, net_key),
     write_key |-> server_to_client_key(client_pk, net_key, a, b, cc),
     write_noncegen |-> NonceGen_new(client_eph_pk, net_key)]

\* slip: the ephemeral key taken from the parsed hello without verify()
ServerGotClientHello_unverified(buf) ==
    LET ch == Hello_from_slice("ClientHello", buf)
    IN  IF ~ch.ok THEN ServerFail(ch.e)
        ELSE [s EXCEPT !.pc = "write_hello", !.rdone = 0, !.client_eph_pk = ch.v.pk]

\* slip: the verdict on ClientHello is looked at after ServerHello is sent
ServerGotClientHello_late_check(buf) ==
    LET ch == Hello_from_slice("ClientHello", buf)
        v == IF ch.ok THEN Hello_verify(ch.v, cfg.snet) ELSE ch
    IN  IF ~v.ok
        THEN [s EXCEPT !.pc = "write_hello", !.rdone = 0, !.err = v.e, !.erat = s.pc]
        ELSE [s EXCEPT !.pc = "write_hello", !.rdone = 0, !.client_eph_pk = v.v]

\* lines 111-112: parse and verify ClientHello
ServerGotClientHello(buf) ==
    LET ch == Hello_from_slice("ClientHello", buf)
        v == IF ch.ok THEN Hello_verify(ch.v, cfg.snet) ELSE ch
    IN  IF ~v.ok THEN ServerFail(v.e)
        ELSE [s EXCEPT !.pc = "write_hello", !.rdone = 0, !.client_eph_pk = v.v]

\* lines 121-122: SharedA and SharedB, once ServerHello is flushed
ServerDerivedAB ==
    LET a == SharedA_server_side(SK(ServerEph), s.client_eph_pk)
        b == SharedB_server_side(SK(ServerLongterm), s.client_eph_pk)
    IN  IF ~a.ok \/ ~b.ok THEN ServerFail("KeyConversionFailure")
        ELSE [s EXCEPT !.pc = "read_auth", !.shared_a = a.v, !.shared_b = b.v]

\* lines 129-134: parse, open and verify ClientAuth, derive SharedC
ServerGotClientAuth(buf) ==
    LET ca == Sealed_from_buffer("ClientAuth", buf)
        v == IF ca.ok
             THEN ClientAuth_open_and_verify(ca.v, PK(ServerLongterm), cfg.snet,
                                             s.shared_a, s.shared_b)
             ELSE ca
        cc == IF v.ok THEN SharedC_server_side(SK(ServerEph), v.v.pk) ELSE v
    IN  IF ~v.ok THEN ServerFail(v.e)
        ELSE IF ~cc.ok THEN ServerFail("KeyConversionFailure")
        ELSE [s EXCEPT !.pc = "write_accept", !.rdone = 0, !.client_sig = v.v.sig,
                       !.client_pk = v.v.pk, !.shared_c = cc.v]

\* lines 108-113
ServerReadHello ==
    /\ s.pc = "read_hello"
    /\ \/ /\ Avail("c2s") > 0
          /\ \E k \in Chunks(ClientHelloBuf - s.rdone, Avail("c2s")) :
                /\ PollRead("c2s", k)
                /\ s' = IF s.rdone + k = ClientHelloBuf
                        THEN ServerGotClientHello(
                                 Received("c2s", chan["c2s"].rcvd - s.rdone, ClientHelloBuf))
                        ELSE [s EXCEPT !.rdone = @ + k]
       \/ /\ Eof("c2s")
          /\ s' = ServerFail("TransportError")
          /\ UNCHANGED chan
       \/ /\ IoErr("ClientHello", "read")
          /\ s' = ServerFail("TransportError")
          /\ UNCHANGED chan
    /\ UNCHANGED <<cfg, c, wire>>

\* lines 116-117
ServerWriteHello ==
    /\ s.pc = "write_hello"
    /\ \/ /\ Free("s2c") > 0
          /\ \E k \in Chunks(WireLen("ServerHello") - s.wdone, Free("s2c")) :
                /\ PollWrite("s2c", "ServerHello", Hello_new(PK(ServerEph), cfg.snet), s.wdone, k)
                /\ s' = IF s.wdone + k = WireLen("ServerHello")
                        THEN [s EXCEPT !.pc = "flush_hello", !.wdone = 0]
                        ELSE [s EXCEPT !.wdone = @ + k]
       \/ /\ IoErr("ServerHello", "write")
          /\ s' = ServerFail("TransportError")
          /\ UNCHANGED <<chan, wire>>
    /\ UNCHANGED <<cfg, c>>

\* lines 118-122
ServerFlushHello ==
    /\ s.pc = "flush_hello"
    /\ \/ s' = ServerDerivedAB
       \/ IoErr("ServerHello", "flush") /\ s' = ServerFail("TransportError")
    /\ UNCHANGED <<cfg, c, chan, wire>>

\* slip: end-of-stream while reading ClientAuth reported as a rejected ClientAuth
ServerReadAuth_eof_as_auth ==
    /\ s.pc = "read_auth"
    /\ \/ /\ Avail("c2s") > 0
          /\ \E k \in Chunks(ClientAuthBuf - s.rdone, Avail("c2s")) :
                /\ PollRead("c2s", k)
                /\ s' = IF s.rdone + k = ClientAuthBuf
                        THEN ServerGotClientAuth(
                                 Received("c2s", chan["c2s"].rcvd - s.rdone, ClientAuthBuf))
                        ELSE [s EXCEPT !.rdone = @ + k]
       \/ /\ Eof("c2s")
          /\ s' = ServerFail("ClientAuthFailure")
          /\ UNCHANGED chan
       \/ /\ IoErr("ClientAuth", "read")
          /\ s' = ServerFail("TransportError")
          /\ UNCHANGED chan
    /\ UNCHANGED <<cfg, c, wire>>

\* slip: read() in place of read_exact(): whatever one poll returns is parsed
ServerReadAuth_single_read ==
    /\ s.pc = "read_auth"
    /\ \/ /\ Avail("c2s") > 0
          /\ \E k \in Chunks(ClientAuthBuf - s.rdone, Avail("c2s")) :
                /\ PollRead("c2s", k)
                /\ s' = ServerGotClientAuth(Received("c2s", chan["c2s"].rcvd, ClientAuthBuf))
       \/ /\ Eof("c2s")
          /\ s' = ServerFail("TransportError")
          /\ UNCHANGED chan
       \/ /\ IoErr("ClientAuth", "read")
          /\ s' = ServerFail("TransportError")
          /\ UNCHANGED chan
    /\ UNCHANGED <<cfg, c, wire>>

\* lines 125-134
ServerReadAuth ==
    /\ s.pc = "read_auth"
    /\ \/ /\ Avail("c2s") > 0
          /\ \E k \in Chunks(ClientAuthBuf - s.rdone, Avail("c2s")) :
                /\ PollRead("c2s", k)
                /\ s' = IF s.rdone + k = ClientAuthBuf
                        THEN ServerGotClientAuth(
                                 Received("c2s", chan["c2s"].rcvd - s.rdone, ClientAuthBuf))
                        ELSE [s EXCEPT !.rdone = @ + k]
       \/ /\ Eof("c2s")
          /\ s' = ServerFail("TransportError")
          /\ UNCHANGED chan
       \/ /\ IoErr("ClientAuth", "read")
          /\ s' = ServerFail("TransportError")
          /\ UNCHANGED chan
    /\ UNCHANGED <<cfg, c, wire>>

\* lines 137-139
ServerWriteAccept ==
    /\ s.pc = "write_accept"
    /\ \/ /\ Free("s2c") > 0
          /\ \E k \in Chunks(WireLen("ServerAccept") - s.wdone, Free("s2c")) :
                /\ PollWrite("s2c", "ServerAccept",
                             ServerAccept_new(SK(ServerLongterm), s.client_pk, cfg.snet, s.client_sig,
                                              s.shared_a, s.shared_b, s.shared_c),
                             s.wdone, k)
                /\ s' = IF s.wdone + k = WireLen("ServerAccept")
                        THEN [s EXCEPT !.pc = "flush_accept", !.wdone = 0]
                        ELSE [s EXCEPT !.wdone = @ + k]
       \/ /\ IoErr("ServerAccept", "write")
          /\ s' = ServerFail("TransportError")
          /\ UNCHANGED <<chan, wire>>
    /\ UNCHANGED <<cfg, c>>

\* slip: the server waits for the client's reaction before it returns
ServerFlushAccept_awaits_peer ==
    /\ s.pc = "flush_accept"
    /\ Eof("c2s")
    /\ s' = ServerFail("TransportError")
    /\ UNCHANGED <<cfg, c, chan, wire>>

\* lines 140-148
ServerFlushAccept ==
    /\ s.pc = "flush_accept"
    /\ \/ s' = [s EXCEPT !.pc = "done", !.ret = "ok",
                         !.outcome = server_outcome(PK(ServerLongterm), cfg.snet, s.client_pk,
                                                    PK(ServerEph), s.client_eph_pk,
                                                    s.shared_a, s.shared_b, s.shared_c)]
       \/ IoErr("ServerAccept", "flush") /\ s' = ServerFail("TransportError")
    /\ UNCHANGED <<cfg, c, chan, wire>>

\* slip: server() returns the error without closing the stream
ServerClose_forgotten ==
    /\ s.pc = "close"
    /\ s' = [s EXCEPT !.pc = "done", !.ret = s.err]
    /\ UNCHANGED <<cfg, c, chan, wire>>

\* lines 90-93: close after a failed attempt, whatever close() returns
ServerClose ==
    /\ s.pc = "close"
    /\ \E shut \in CloseEffects : chan' = [chan EXCEPT !["s2c"].closed = shut]
    /\ s' = [s EXCEPT !.pc = "done", !.closed = TRUE, !.close_failed = cfg.close_fails,
                      !.ret = s.err]
    /\ UNCHANGED <<cfg, c, wire>>

\* the future of server() is dropped at an await
ServerCancel ==
    /\ cfg.fault.kind = "cancel"
    /\ Suspended(s, "c2s", "s2c")
    /\ s' = [s EXCEPT !.pc = "cancelled"]
    /\ \E dropped \in BOOLEAN : chan' = [chan EXCEPT !["s2c"].closed = dropped]
    /\ UNCHANGED <<cfg, c, wire>>

(* --------------------------- specification ----------------------------- *)

\* bytes of the post-handshake transport on each direction
MaxTrailing == 2

\* the caller of client() goes on to use the stream it got back open
ClientAppWrite ==
    /\ c.pc = "done" /\ c.ret = "ok"
    /\ chan["c2s"].extra < MaxTrailing
    /\ Free("c2s") > 0
    /\ chan' = [chan EXCEPT !["c2s"].extra = @ + 1]
    /\ UNCHANGED <<cfg, c, s, wire>>

\* the caller of server() goes on to use the stream it got back open
ServerAppWrite ==
    /\ s.pc = "done" /\ s.ret = "ok"
    /\ chan["s2c"].extra < MaxTrailing
    /\ Free("s2c") > 0
    /\ chan' = [chan EXCEPT !["s2c"].extra = @ + 1]
    /\ UNCHANGED <<cfg, c, s, wire>>

Init ==
    /\ cfg \in Configs
    /\ c = ClientInit
    /\ s = ServerInit
    /\ chan = [d \in Dirs |-> EmptyChan]
    /\ wire = <<>>

ClientProc ==
    \/ ClientWriteHello
    \/ ClientFlushHello
    \/ ClientReadHello
    \/ ClientWriteAuth
    \/ ClientFlushAuth
    \/ ClientReadAccept
    \/ ClientClose

ServerProc ==
    \/ ServerReadHello
    \/ ServerWriteHello
    \/ ServerFlushHello
    \/ ServerReadAuth
    \/ ServerWriteAccept
    \/ ServerFlushAccept
    \/ ServerClose

Next ==
    \/ ClientWriteHello
    \/ ClientFlushHello
    \/ ClientReadHello
    \/ ClientWriteAuth
    \/ ClientFlushAuth
    \/ ClientReadAccept
    \/ ClientClose
    \/ ServerReadHello
    \/ ServerWriteHello
    \/ ServerFlushHello
    \/ ServerReadAuth
    \/ ServerWriteAccept
    \/ ServerFlushAccept
    \/ ServerClose
    \/ ClientCancel
    \/ ServerCancel
    \/ ClientAppWrite
    \/ ServerAppWrite

Spec == Init /\ [][Next]_vars

\* each coroutine is polled again whenever its stream makes progress possible
LiveSpec == Spec /\ WF_vars(ClientProc) /\ WF_vars(ServerProc)

ChunkInit ==
    /\ cfg \in ChunkConfigs
    /\ c = ClientInit
    /\ s = ServerInit
    /\ chan = [d \in Dirs |-> EmptyChan]
    /\ wire = <<>>

ChunkNext == ClientProc \/ ServerProc

\* the two handshakes over a fault-free stream, under every chunking
ChunkSpec == ChunkInit /\ [][ChunkNext]_vars

(* ------------------------ derived observations ------------------------- *)

ClientReturned == c.pc = "done"

ServerReturned == s.pc = "done"

ClientOk == c.pc = "done" /\ c.err = "none"

ServerOk == s.pc = "done" /\ s.err = "none"

SameNet == cfg.cnet = cfg.snet

RealPk == cfg.server_pk = PK(ServerLongterm)

Reliable == cfg.fault.kind = "none" /\ ~cfg.close_fails

Honest == SameNet /\ RealPk /\ Reliable

(* ------------------------------- claims -------------------------------- *)

\* C1: whenever both client() and server() have returned a HandshakeOutcome,
\* client.write_key = server.read_key, client.read_key = server.write_key and
\* the first values of the paired nonce generators are equal.
KeyAgreement ==
    (ClientOk /\ ServerOk) =>
        /\ c.outcome.write_key = s.outcome.read_key
        /\ c.outcome.read_key = s.outcome.write_key
        /\ c.outcome.write_noncegen = s.outcome.read_noncegen
        /\ c.outcome.read_noncegen = s.outcome.write_noncegen

KeyAgreementWitness ==
    /\ ClientOk /\ ServerOk
    /\ c.outcome # NoOutcome /\ s.outcome # NoOutcome
    /\ c.outcome.write_key = s.outcome.read_key

\* C2: same NetworkId, the real server public key and a reliable stream: under
\* fair scheduling both client() and server() eventually return success.
HonestRunSucceeds == Honest => <>(ClientOk /\ ServerOk)

HonestRunWitness == Honest /\ ClientOk /\ ServerOk /\ Len(wire) = 4

\* C3: the frames enter the stream as a prefix of ClientHello(64, client),
\* ServerHello(64, server), ClientAuth(112, client), ServerAccept(80, server);
\* ServerHello is written only after the received ClientHello was read and
\* MAC-verified, ClientAuth only after the received ServerHello was, and
\* ServerAccept only after the received ClientAuth was opened and verified; a
\* successful client has written 176 bytes, a successful server 144.
FrameOrder ==
    << [type |-> "ClientHello", by |-> "client", len |-> 64],
       [type |-> "ServerHello", by |-> "server", len |-> 64],
       [type |-> "ClientAuth", by |-> "client", len |-> 112],
       [type |-> "ServerAccept", by |-> "server", len |-> 80] >>

DeliveredBody(d, i) == Deliver(chan[d].frames[i]).body

StrictFourMessageOrder ==
    /\ Len(wire) <= 4
    /\ \A i \in 1..Len(wire) : wire[i] = FrameOrder[i]
    /\ Len(wire) >= 2 =>
          /\ chan["c2s"].rcvd >= 64
          /\ Hello_verify(DeliveredBody("c2s", 1), cfg.snet).ok
    /\ Len(wire) >= 3 =>
          /\ chan["s2c"].rcvd >= 64
          /\ Hello_verify(DeliveredBody("s2c", 1), cfg.cnet).ok
    /\ Len(wire) >= 4 =>
          /\ chan["c2s"].rcvd = 176
          /\ ClientAuth_open_and_verify(DeliveredBody("c2s", 2), PK(ServerLongterm), cfg.snet,
                                        s.shared_a, s.shared_b).ok
    /\ ClientOk => chan["c2s"].sent = 176
    /\ ServerOk => chan["s2c"].sent = 144

StrictFourMessageOrderWitness ==
    /\ ClientOk /\ ServerOk
    /\ wire = FrameOrder
    /\ chan["c2s"].sent = 176 /\ chan["s2c"].sent = 144

\* C4: the client is given a server public key other than the real one (all
\* zero, or an unrelated valid key), same NetworkId, reliable stream: neither
\* side ever holds a HandshakeOutcome and both sides return an error.
WrongPkCfg == ~RealPk /\ SameNet /\ Reliable

NoOutcomes == c.outcome = NoOutcome /\ s.outcome = NoOutcome /\ ~ClientOk /\ ~ServerOk

BothFailed ==
    /\ ClientReturned /\ c.err # "none"
    /\ ServerReturned /\ s.err # "none"
    /\ NoOutcomes

WrongServerPkRejected ==
    /\ [](WrongPkCfg => NoOutcomes)
    /\ (WrongPkCfg => <>BothFailed)

WrongServerPkRejectedWitness ==
    /\ WrongPkCfg /\ cfg.server_pk = PK(OtherLongterm)
    /\ BothFailed
    /\ Len(wire) = 3

\* C5 as stated: with any wrong server public key the client fails with
\* ServerAcceptFailure and the server with ClientAuthFailure.
WrongPkErrorKindsAsStated ==
    WrongPkCfg =>
        /\ ClientReturned => c.err = "ServerAcceptFailure"
        /\ ServerReturned => s.err = "ClientAuthFailure"

\* C5 amended: with a wrong but valid server public key the server fails with
\* ClientAuthFailure and the client with TransportError (end-of-stream while
\* reading the ServerAccept the server never sends); with a key that cannot
\* be converted (all zero) the client fails with KeyConversionFailure before
\* sending ClientAuth and the server with TransportError.
WrongPkErrorKinds ==
    WrongPkCfg =>
        /\ ClientReturned =>
              c.err = (IF cfg.server_pk = ZeroPk THEN "KeyConversionFailure" ELSE "TransportError")
        /\ ServerReturned =>
              s.err = (IF cfg.server_pk = ZeroPk THEN "TransportError" ELSE "ClientAuthFailure")
        /\ c.err # "ServerAcceptFailure"

WrongPkErrorKindsWitness ==
    /\ WrongPkCfg /\ cfg.server_pk = PK(OtherLongterm)
    /\ ClientReturned /\ c.err = "TransportError" /\ c.erat = "read_accept"
    /\ ServerReturned /\ s.err = "ClientAuthFailure"

\* C6 as stated: with the all-zero server public key the client fails with
\* ServerAcceptFailure or KeyConversionFailure, the server fails with
\* ClientAuthFailure, and the stream is closed on both sides.
ZeroPkCfg == cfg.server_pk = ZeroPk /\ SameNet /\ Reliable

ZeroPkAsStated ==
    ZeroPkCfg =>
        /\ ClientReturned =>
              /\ c.err \in {"ServerAcceptFailure", "KeyConversionFailure"}
              /\ c.closed /\ chan["c2s"].closed
        /\ ServerReturned =>
              /\ s.err = "ClientAuthFailure"
              /\ s.closed /\ chan["s2c"].closed

\* C6 amended: with the all-zero server public key the client fails with
\* ServerAcceptFailure or KeyConversionFailure, the server fails with
\* TransportError (end-of-stream while reading the ClientAuth that the client
\* never sends), and the stream is closed on both sides.
ZeroPkRejected ==
    ZeroPkCfg =>
        /\ ClientReturned =>
              /\ c.err \in {"ServerAcceptFailure", "KeyConversionFailure"}
              /\ c.closed /\ chan["c2s"].closed
        /\ ServerReturned =>
              /\ s.err = "TransportError"
              /\ s.closed /\ chan["s2c"].closed

ZeroPkRejectedWitness ==
    /\ ZeroPkCfg
    /\ ClientReturned /\ c.err = "KeyConversionFailure" /\ c.erat = "read_hello"
    /\ ServerReturned /\ s.err = "TransportError" /\ s.erat = "read_auth"
    /\ chan["c2s"].closed /\ chan["s2c"].closed
    /\ Len(wire) = 2

\* C7 as stated: with different NetworkIds both sides fail with HelloAuthFailure.
MismatchCfg == ~SameNet /\ Reliable

MismatchedNetAsStated ==
    MismatchCfg =>
        /\ ClientReturned => c.err = "HelloAuthFailure"
        /\ ServerReturned => s.err = "HelloAuthFailure"

\* C7 amended: with different NetworkIds the server fails with
\* HelloAuthFailure and the client fails with TransportError (end-of-stream
\* while reading the ServerHello that the server never sends).
MismatchedNet ==
    MismatchCfg =>
        /\ ClientReturned => c.err = "TransportError"
        /\ ServerReturned => s.err = "HelloAuthFailure"
        /\ ~ClientOk /\ ~ServerOk

MismatchedNetWitness ==
    /\ MismatchCfg
    /\ ClientReturned /\ c.err = "TransportError"
    /\ ServerReturned /\ s.err = "HelloAuthFailure"

\* C8: with different NetworkIds the server fails first, with
\* HelloAuthFailure on the ClientHello; the client fails only after the server
\* has returned, while reading ServerHello, of which no byte was ever written.
MismatchedNetOrder ==
    MismatchCfg =>
        /\ s.err # "none" => s.err = "HelloAuthFailure" /\ s.erat = "read_hello"
        /\ c.err # "none" =>
              /\ ServerReturned /\ s.err = "HelloAuthFailure"
              /\ c.err = "TransportError" /\ c.erat = "read_hello"
              /\ c.server_eph_pk = NoKey
        /\ chan["s2c"].sent = 0

MismatchedNetOrderWitness ==
    /\ MismatchCfg
    /\ s.err = "HelloAuthFailure" /\ ServerReturned
    /\ c.erat = "read_hello" /\ c.pc = "close"

\* C9: when the stream delivers only a strict prefix of one of the four
\* messages and then end-of-stream, the receiver of that message never
\* consumes the whole frame, never succeeds, and a failure at that read is
\* TransportError; in an otherwise honest run that is the receiver's result,
\* and when ClientAuth is cut the client too fails with TransportError, while
\* reading ServerAccept.
Receiver(f) == IF DirOf(f) = "c2s" THEN s ELSE c

ReadPc(f) ==
    CASE f = "ClientHello" -> "read_hello"
      [] f = "ServerHello" -> "read_hello"
      [] f = "ClientAuth" -> "read_auth"
      [] f = "ServerAccept" -> "read_accept"

CutCfg(f) == cfg.fault.kind = "cut" /\ cfg.fault.frame = f

TruncationIsTransportError ==
    \A f \in Frames :
        CutCfg(f) =>
            LET r == Receiver(f)
            IN  /\ chan[DirOf(f)].rcvd < FrameOff(f) + WireLen(f)
                /\ r.outcome = NoOutcome /\ ~(r.pc = "done" /\ r.err = "none")
                /\ r.erat = ReadPc(f) => r.err = "TransportError"
                /\ (SameNet /\ RealPk /\ r.pc = "done") =>
                      r.err = "TransportError" /\ r.erat = ReadPc(f)
                /\ (SameNet /\ RealPk /\ f = "ClientAuth" /\ ClientReturned) =>
                      c.err = "TransportError" /\ c.erat = "read_accept"

TruncationWitness ==
    /\ CutCfg("ClientAuth") /\ cfg.fault.at = 111 /\ SameNet /\ RealPk
    /\ chan["c2s"].rcvd = 64 + 111
    /\ ServerReturned /\ s.err = "TransportError" /\ s.erat = "read_auth"
    /\ ClientReturned /\ c.err = "TransportError" /\ c.erat = "read_accept"

\* C10: when one bit of one of the four messages is flipped in transit, the
\* receiver of that message never succeeds; having read the whole frame it
\* fails with HelloAuthFailure (hellos), ClientAuthFailure (ClientAuth) or
\* ServerAcceptFailure (ServerAccept), and in an otherwise honest run that is
\* the receiver's result.
ExpectedKind(f) ==
    CASE f = "ClientHello" -> "HelloAuthFailure"
      [] f = "ServerHello" -> "HelloAuthFailure"
      [] f = "ClientAuth" -> "ClientAuthFailure"
      [] f = "ServerAccept" -> "ServerAcceptFailure"

FlipCfg(f) == cfg.fault.kind = "flip" /\ cfg.fault.frame = f

TamperDetected ==
    \A f \in Frames :
        FlipCfg(f) =>
            LET r == Receiver(f)
            IN  /\ r.outcome = NoOutcome /\ ~(r.pc = "done" /\ r.err = "none")
                /\ chan[DirOf(f)].rcvd >= FrameOff(f) + WireLen(f) =>
                      r.err = ExpectedKind(f) /\ r.erat = ReadPc(f)
                /\ (SameNet /\ RealPk /\ r.pc = "done") => r.err = ExpectedKind(f)

TamperDetectedWitness ==
    /\ FlipCfg("ClientAuth") /\ cfg.fault.at = 111 /\ SameNet /\ RealPk
    /\ chan["c2s"].rcvd = 176
    /\ ServerReturned /\ s.err = "ClientAuthFailure"

\* C11: the server returns success once ServerAccept is written and flushed,
\* whatever the client does with it; when bit 0 of byte 0 of ServerAccept is
\* flipped in transit the run ends with the server holding a HandshakeOutcome
\* and the client failed with ServerAcceptFailure.
AsymCfg == FlipCfg("ServerAccept") /\ cfg.fault.at = 0 /\ SameNet /\ RealPk

AsymEnd ==
    /\ ServerOk /\ s.outcome # NoOutcome
    /\ ClientReturned /\ c.err = "ServerAcceptFailure" /\ c.outcome = NoOutcome

AsymmetricFinalStep ==
    /\ [](s.pc = "flush_accept" => ENABLED ServerFlushAccept)
    /\ [](AsymCfg => /\ ClientReturned => c.err = "ServerAcceptFailure"
                     /\ ServerReturned => ServerOk /\ s.outcome # NoOutcome)
    /\ (AsymCfg => <>AsymEnd)

AsymmetricFinalStepWitness == AsymCfg /\ AsymEnd /\ chan["s2c"].rcvd = 144

\* C12: whenever client() or server() has returned an error, of whatever
\* kind, it has attempted close() on its stream before returning and the
\* caller holds no HandshakeOutcome.
ErrorKinds ==
    {"TransportError", "BadLength", "HelloAuthFailure", "ClientAuthFailure",
     "ServerAcceptFailure", "KeyConversionFailure"}

ReturnedError(r) == r.pc = "done" /\ r.ret # "ok"

CloseOnError ==
    \A r \in {c, s} :
        /\ r.pc = "done" => (r.ret = "ok" <=> r.err = "none")
        /\ ReturnedError(r) =>
              /\ r.ret \in ErrorKinds
              /\ r.closed
              /\ r.outcome = NoOutcome

CloseOnErrorWitness ==
    /\ ReturnedError(c) /\ c.ret = "TransportError" /\ c.erat = "flush_hello" /\ c.closed
    /\ ReturnedError(s) /\ s.closed /\ s.outcome = NoOutcome

\* C13: when the attempt failed with error E and the close() that follows
\* fails too, client() and server() return exactly E.
CloseFailureSwallowed ==
    \A r \in {c, s} :
        (r.pc = "done" /\ r.close_failed) =>
            /\ r.err \in ErrorKinds
            /\ r.ret = r.err
            /\ r.erat # "close"

CloseFailureSwallowedWitness ==
    /\ c.pc = "done" /\ c.close_failed /\ c.ret = "HelloAuthFailure"
    /\ s.pc = "done" /\ s.close_failed /\ s.ret = "TransportError"

\* C14: a handshake cancelled while suspended at a stream operation has
\* closed its stream and holds no HandshakeOutcome.
Cancelled(r) == r.pc = "cancelled"

CancellationCloses ==
    /\ Cancelled(c) => (c.closed \/ chan["c2s"].closed) /\ c.outcome = NoOutcome
    /\ Cancelled(s) => (s.closed \/ chan["s2c"].closed) /\ s.outcome = NoOutcome

\* C15: over a fault-free stream the results of client() and server() are
\* those of the run that moves every frame whole, whatever the chunking and
\* the buffer size, and both calls return.
WholeResult ==
    IF cfg.cnet # cfg.snet
    THEN [client |-> "TransportError", server |-> "HelloAuthFailure"]
    ELSE IF cfg.server_pk = ZeroPk
    THEN [client |-> "KeyConversionFailure", server |-> "TransportError"]
    ELSE IF cfg.server_pk # PK(ServerLongterm)
    THEN [client |-> "TransportError", server |-> "ClientAuthFailure"]
    ELSE [client |-> "ok", server |-> "ok"]

WholeClientOutcome ==
    client_outcome(PK(ClientLongterm), cfg.cnet, cfg.server_pk, PK(ClientEph), PK(ServerEph),
                   SharedA_client_side(SK(ClientEph), PK(ServerEph)).v,
                   SharedB_client_side(SK(ClientEph), cfg.server_pk).v,
                   SharedC_client_side(SK(ClientLongterm), PK(ServerEph)).v)

ResultsAsWhole ==
    /\ ClientReturned =>
          /\ c.ret = WholeResult.client
          /\ c.ret = "ok" => c.outcome = WholeClientOutcome
    /\ ServerReturned =>
          /\ s.ret = WholeResult.server
          /\ s.ret = "ok" =>
                /\ s.outcome.read_key = WholeClientOutcome.write_key
                /\ s.outcome.write_key = WholeClientOutcome.read_key
                /\ s.outcome.read_noncegen = WholeClientOutcome.write_noncegen
                /\ s.outcome.write_noncegen = WholeClientOutcome.read_noncegen

\* no stall: until both calls have returned, one of them can take a step
NoStall == (ClientReturned /\ ServerReturned) \/ ENABLED ChunkNext

ClientRank ==
    CASE c.pc = "write_hello" -> 0 [] c.pc = "flush_hello" -> 1 [] c.pc = "read_hello" -> 2
      [] c.pc = "write_auth" -> 3 [] c.pc = "flush_auth" -> 4 [] c.pc = "read_accept" -> 5
      [] c.pc = "close" -> 6 [] OTHER -> 7

ServerRank ==
    CASE s.pc = "read_hello" -> 0 [] s.pc = "write_hello" -> 1 [] s.pc = "flush_hello" -> 2
      [] s.pc = "read_auth" -> 3 [] s.pc = "write_accept" -> 4 [] s.pc = "flush_accept" -> 5
      [] s.pc = "close" -> 6 [] OTHER -> 7

\* bytes moved and awaits passed: bounded, so a run that always advances ends
Advance ==
    chan["c2s"].sent + chan["c2s"].rcvd + chan["s2c"].sent + chan["s2c"].rcvd
        + ClientRank + ServerRank

ChunkingTolerated == [](ResultsAsWhole /\ NoStall) /\ [][Advance' > Advance]_vars

ChunkingToleratedWitness ==
    /\ cfg.partial /\ cfg.cap = SmallCap
    /\ ClientOk /\ ServerOk
    /\ chan["c2s"].rcvd = ClientHelloBuf + ClientAuthBuf

\* C16: the client never consumes more than 64 + 80 bytes and the server never
\* more than 64 + 112, on success exactly those; what the peer writes after
\* its last handshake frame is still unread in the stream.
Unread(d) == chan[d].sent + chan[d].extra - chan[d].rcvd

NoOverRead ==
    /\ chan["s2c"].rcvd <= ServerHelloBuf + ServerAcceptBuf
    /\ chan["c2s"].rcvd <= ClientHelloBuf + ClientAuthBuf
    /\ ClientOk => chan["s2c"].rcvd = ServerHelloBuf + ServerAcceptBuf
    /\ ServerOk => chan["c2s"].rcvd = ClientHelloBuf + ClientAuthBuf
    /\ \A d \in Dirs : Unread(d) >= chan[d].extra

NoOverReadWitness ==
    /\ ClientOk /\ ServerOk
    /\ chan["s2c"].extra = MaxTrailing /\ Unread("s2c") = MaxTrailing
    /\ chan["c2s"].extra = MaxTrailing /\ Unread("c2s") = MaxTrailing

\* C17: once a step of a role has failed, the role does not read, write or
\* flush again and only closes; a server that rejected ClientHello has written
\* nothing, and a client whose key derivation failed has written 64 bytes.
Failed(r) == r.err # "none"

QuietAfterFailure ==
    /\ Failed(c) =>
          /\ chan'["c2s"].sent = chan["c2s"].sent
          /\ chan'["c2s"].frames = chan["c2s"].frames
          /\ chan'["s2c"].rcvd = chan["s2c"].rcvd
          /\ c'.err = c.err
          /\ c'.pc \in {"close", "done"}
    /\ Failed(s) =>
          /\ chan'["s2c"].sent = chan["s2c"].sent
          /\ chan'["s2c"].frames = chan["s2c"].frames
          /\ chan'["c2s"].rcvd = chan["c2s"].rcvd
          /\ s'.err = s.err
          /\ s'.pc \in {"close", "done"}

WrittenAtFailure ==
    /\ (s.erat = "read_hello" /\ s.err = "HelloAuthFailure") =>
          /\ chan["s2c"].sent = 0
          /\ chan["s2c"].frames = <<>>
          /\ chan["s2c"].rcvd = 0
    /\ c.err = "KeyConversionFailure" =>
          /\ chan["c2s"].sent = ClientHelloBuf
          /\ Len(chan["c2s"].frames) = 1

FirstFailureEnds == []WrittenAtFailure /\ [][QuietAfterFailure]_vars

FirstFailureEndsWitness ==
    /\ s.erat = "read_hello" /\ s.err = "HelloAuthFailure" /\ s.pc = "done"
    /\ c.erat = "read_hello" /\ c.pc = "done"
    /\ chan["s2c"].sent = 0

\* C18: on a stream whose close is seen by the peer as end-of-stream, under
\* fair scheduling a role that has returned is followed by its peer: no role
\* waits forever on a read or a write after the other has returned.
ClosingSignals == ~cfg.close_fails /\ cfg.fault.kind # "cancel"

NoIoError == cfg.fault.kind \notin {"ioerr", "cancel"}

ServerPastLastCheck == s.err = "none" /\ s.pc \in {"flush_accept", "done"}

ClientSuccessImpliesServer ==
    NoIoError =>
        /\ [](ClientOk => ServerPastLastCheck)
        /\ ClientOk ~> ServerOk

ClientSuccessImpliesServerWitness ==
    /\ NoIoError
    /\ ClientOk /\ c.outcome # NoOutcome
    /\ s.pc = "flush_accept" /\ s.outcome = NoOutcome

\* C20: a role that returns a HandshakeOutcome has never called close and its
\* stream is open; close has been attempted exactly when the result is an error.
StreamOpenOnSuccess ==
    /\ \A r \in {c, s} :
          /\ r.closed => r.err \in ErrorKinds
          /\ r.pc = "done" => (r.closed <=> r.ret \in ErrorKinds)
          /\ r.pc = "done" => (r.outcome # NoOutcome <=> ~r.closed)
    /\ c.outcome # NoOutcome => ~chan["c2s"].closed
    /\ s.outcome # NoOutcome => ~chan["s2c"].closed

StreamOpenOnSuccessWitness ==
    /\ ServerOk /\ s.outcome # NoOutcome /\ ~s.closed /\ ~chan["s2c"].closed
    /\ ReturnedError(c) /\ c.closed /\ chan["c2s"].closed

====
